---- MODULE Spec2Model ----
(***************************************************************************)
(* A model of the wired half of pycsmaca's simulation stack:               *)
(*   Queue             (simulations/modules/queues.py)                     *)
(*   WiredTransceiver  (simulations/modules/wired_interface.py)            *)
(*   NetworkSwitch     (simulations/modules/network_layer.py)              *)
(* Every module is driven the way its unit tests drive it: the operations  *)
(* are called directly, and what a module hands to sim.schedule() is kept  *)
(* in `events`, the scheduler's queue.  Python's None is the number None   *)
(* for numbers (addresses are positive, sequence numbers are >= 0) and the *)
(* empty tuple <<>> for objects (a frame, a returned packet).              *)
(***************************************************************************)
EXTENDS Integers, Sequences, FiniteSets, TLC

VARIABLES
    \* ---- pydesim: the simulator --------------------------------------
    stime,          \* sim.stime, the clock
    events,         \* the scheduler's queue, ordered by (time, insertion)
    err,            \* the exception the last call raised, "none" if it returned
    last,           \* the last call made by the driver: [op, arg]
    nops,           \* number of calls made so far (bounds the run)
    \* ---- Queue --------------------------------------------------------
    capacity,       \* Queue.__capacity (None: unbounded)
    packets,        \* Queue.__packets
    data_requests,  \* Queue.__data_requests: parked connections to services
    num_dropped,    \* Queue.__num_dropped
    size_trace,     \* Queue.__size_trace: <<time, value>> samples
    bitsize_trace,  \* Queue.__bitsize_trace
    departed,       \* packets that left the queue (returned or sent), in order
    \* ---- WiredTransceiver ---------------------------------------------
    bitrate,        \* WiredTransceiver.bitrate (Inf: numpy.inf)
    header_size,    \* WiredTransceiver.header_size
    preamble,       \* WiredTransceiver.preamble
    ifs,            \* WiredTransceiver.ifs
    started,        \* WiredTransceiver.__started
    tx_frame,       \* WiredTransceiver.__tx_frame (<<>>: None)
    wait_ifs,       \* WiredTransceiver.__wait_ifs
    rx_frame,       \* WiredTransceiver.__rx_frame (<<>>: None)
    get_next_calls, \* calls of queue.get_next(self) made so far
    connections,    \* WiredTransceiver.connections: the names that are set
    accepted,       \* the frames handed over on 'peer' so far: [frame, at]
    sent_up,        \* the packets sent on 'up' so far: [packet, at]
    \* ---- NetworkSwitch ------------------------------------------------
    ssns,           \* NetworkSwitch.__ssns: address -> SSN (None: no entry)
    sw_msg,         \* the message object after the last handle_message (<<>>: none yet)
    sw_sent,        \* the connection the last handle_message sent on (<<>>: none)
    originated,     \* per destination, the packets the switch originated so far
    fed,            \* per (src_addr, ssn), the routable transit packets fed so far
    fwd,            \* per (src_addr, ssn), the transit packets forwarded so far
    fresh_first,    \* the (src_addr, ssn) whose first routable packet was not stale
    last_ssn,       \* per src_addr, the SSN of the last packet originated with it
    heard,          \* per src_addr, the greatest SSN received with it (None: none)
    \* ---- NetworkService -----------------------------------------------
    svc_connections, \* NetworkService.connections: the names that are set
    handed,          \* the messages handed to the service on 'source' so far
    \* ---- RandomSource -------------------------------------------------
    data_size,      \* RandomSource.__data_size: constant, callable or sequence
    interval,       \* RandomSource.__interval: constant, callable or sequence
    data_size_iter, \* RandomSource.__data_size_iter: what is left of the sequence
    interval_iter,  \* RandomSource.__interval_iter: what is left of the sequence
    arrival_intervals, \* RandomSource.arrival_intervals: the times recorded
    data_size_stat, \* RandomSource.data_size_stat: the sizes appended
    generated,      \* the AppData sent on 'network' so far: [data, at]
    drawn,          \* the interval samples drawn so far
    ngen            \* number of _generate invocations so far

simvars == <<stime, events, err, last, nops>>
qvars   == <<capacity, packets, data_requests, num_dropped, size_trace,
             bitsize_trace, departed>>
tparams == <<bitrate, header_size, preamble, ifs>>
tstate  == <<started, tx_frame, wait_ifs, rx_frame>>
tlog    == <<accepted, sent_up>>
tvars   == <<tparams, tstate, get_next_calls, connections, tlog>>
swvars  == <<ssns, sw_msg, sw_sent, originated, fed, fwd, fresh_first,
             last_ssn, heard>>
svcvars == <<svc_connections, handed>>
srcparams == <<data_size, interval>>
srcstate == <<data_size_iter, interval_iter, arrival_intervals, data_size_stat>>
srclog  == <<generated, drawn, ngen>>
srcvars == <<srcparams, srcstate, srclog>>
appvars == <<svcvars, srcvars>>
vars    == <<simvars, qvars, tvars, swvars, appvars>>

\* Python's None, for the numeric fields.
None == -1

\* ---- bounds -----------------------------------------------------------
MaxOps      == 6    \* calls per run
MaxCapacity == 2    \* largest finite capacity tried
MaxSize     == 2    \* largest packet size tried
MaxRequests == 2    \* largest number of parked pull requests
MaxTrxCalls == 3    \* calls the transceiver's driver makes per run
MaxTime     == 3    \* the simulation's time limit (sim.stime_limit)
MaxDuration == 2    \* longest frame a peer sends
MaxSwMsgs   == 4    \* messages handed to the switch per run
MaxSsn      == 2    \* largest SSN a transit packet carries
MaxSvcMsgs  == 3    \* messages handed to the NetworkService per run
MaxSample   == 2    \* largest interval or data size a source draws
MaxSeqLen   == 2    \* longest finite sequence given to a source
MaxSrcCalls == 2    \* direct calls of _generate per run
MaxLinkCalls == 4   \* calls made on the queue and its transceiver per run

Sizes == 1..MaxSize

(***************************************************************************)
(* pydesim (external): Simulator.schedule and Connection.send.             *)
(***************************************************************************)

\* sim.schedule(delay, fn, args): the event is placed after every event that
\* is due at the same time or earlier (ties fire in insertion order). A handler
\* runs with the clock already set, so the clock it reads is stime'.
Schedule(evs, delay, e) ==
    LET ev == [e EXCEPT !.time = stime' + delay]
    IN  SelectSeq(evs, LAMBDA x: x.time <= ev.time) \o <<ev>> \o
        SelectSeq(evs, LAMBDA x: x.time > ev.time)

\* connection.send(msg) == sim.schedule(delay, peer.handle_message,
\*   args=(msg,), kwargs={connection: reverse, sender: owner}).
\* `to` is the peer module, `conn` the name of the peer's end of the connection.
Delivery(to, conn, msg) ==
    [time |-> 0, kind |-> "handle_message", to |-> to, conn |-> conn, msg |-> <<msg>>]

\* A timer event: sim.schedule(delay, self.handler, args).
Timer(kind, arg) ==
    [time |-> 0, kind |-> kind, to |-> "self", conn |-> "", msg |-> arg]

(***************************************************************************)
(* Queue                                                                   *)
(***************************************************************************)

\* The modules the queue is connected to, and one it is not connected to.
Services == {"s1", "s2"}
Stranger == "s0"

RECURSIVE bitsize(_)
bitsize(pkts) ==
    IF pkts = <<>> THEN 0 ELSE Head(pkts).size + bitsize(Tail(pkts))

\* Trace.record(sim.stime, value)
Record(trace, value) == Append(trace, <<stime', value>>)

push_cap_off_by_one(packet) ==
    IF data_requests # <<>>
    THEN /\ data_requests' = Tail(data_requests)
         /\ events' = Schedule(events, 0, Delivery(Head(data_requests), "queue", packet))
         /\ departed' = Append(departed, packet)
         /\ UNCHANGED <<packets, num_dropped, size_trace, bitsize_trace>>
    ELSE IF capacity = None \/ Len(packets) <= capacity
    THEN /\ packets' = Append(packets, packet)
         /\ size_trace' = Record(size_trace, Len(packets'))
         /\ bitsize_trace' = Record(bitsize_trace, bitsize(packets'))
         /\ UNCHANGED <<data_requests, num_dropped, events, departed>>
    ELSE /\ num_dropped' = num_dropped + 1
         /\ UNCHANGED <<packets, data_requests, size_trace, bitsize_trace,
                        events, departed>>

push_buffers_too(packet) ==
    IF data_requests # <<>>
    THEN /\ data_requests' = Tail(data_requests)
         /\ events' = Schedule(events, 0, Delivery(Head(data_requests), "queue", packet))
         /\ departed' = Append(departed, packet)
         /\ packets' = Append(packets, packet)
         /\ size_trace' = Record(size_trace, Len(packets'))
         /\ bitsize_trace' = Record(bitsize_trace, bitsize(packets'))
         /\ UNCHANGED num_dropped
    ELSE IF capacity = None \/ Len(packets) < capacity
    THEN /\ packets' = Append(packets, packet)
         /\ size_trace' = Record(size_trace, Len(packets'))
         /\ bitsize_trace' = Record(bitsize_trace, bitsize(packets'))
         /\ UNCHANGED <<data_requests, num_dropped, events, departed>>
    ELSE /\ num_dropped' = num_dropped + 1
         /\ UNCHANGED <<packets, data_requests, size_trace, bitsize_trace,
                        events, departed>>

push_records_drop(packet) ==
    IF data_requests # <<>>
    THEN /\ data_requests' = Tail(data_requests)
         /\ events' = Schedule(events, 0, Delivery(Head(data_requests), "queue", packet))
         /\ departed' = Append(departed, packet)
         /\ UNCHANGED <<packets, num_dropped, size_trace, bitsize_trace>>
    ELSE IF capacity = None \/ Len(packets) < capacity
    THEN /\ packets' = Append(packets, packet)
         /\ size_trace' = Record(size_trace, Len(packets'))
         /\ bitsize_trace' = Record(bitsize_trace, bitsize(packets'))
         /\ UNCHANGED <<data_requests, num_dropped, events, departed>>
    ELSE /\ num_dropped' = num_dropped + 1
         /\ size_trace' = Record(size_trace, Len(packets))
         /\ bitsize_trace' = Record(bitsize_trace, bitsize(packets))
         /\ UNCHANGED <<packets, data_requests, events, departed>>

\* Queue.push(packet)
push(packet) ==
    IF data_requests # <<>>
    THEN /\ data_requests' = Tail(data_requests)
         /\ events' = Schedule(events, 0, Delivery(Head(data_requests), "queue", packet))
         /\ departed' = Append(departed, packet)
         /\ UNCHANGED <<packets, num_dropped, size_trace, bitsize_trace>>
    ELSE IF capacity = None \/ Len(packets) < capacity
    THEN /\ packets' = Append(packets, packet)
         /\ size_trace' = Record(size_trace, Len(packets'))
         /\ bitsize_trace' = Record(bitsize_trace, bitsize(packets'))
         /\ UNCHANGED <<data_requests, num_dropped, events, departed>>
    ELSE /\ num_dropped' = num_dropped + 1
         /\ UNCHANGED <<packets, data_requests, size_trace, bitsize_trace,
                        events, departed>>

\* deque.popleft(): the packet taken and the packets left.
popleft_takes_right(pkts) ==
    [ret |-> pkts[Len(pkts)], rest |-> SubSeq(pkts, 1, Len(pkts) - 1)]

popleft(pkts) == [ret |-> Head(pkts), rest |-> Tail(pkts)]

pop_records_old_size ==
    /\ packets # <<>>
    /\ packets' = popleft(packets).rest
    /\ size_trace' = Record(size_trace, Len(packets))
    /\ bitsize_trace' = Record(bitsize_trace, bitsize(packets))
    /\ departed' = Append(departed, popleft(packets).ret)

\* Queue.pop() on a non-empty queue; the packet returned is popleft(packets).ret.
pop ==
    /\ packets # <<>>
    /\ packets' = popleft(packets).rest
    /\ size_trace' = Record(size_trace, Len(packets'))
    /\ bitsize_trace' = Record(bitsize_trace, bitsize(packets'))
    /\ departed' = Append(departed, popleft(packets).ret)

get_next_parks_in_front(service) ==
    IF packets # <<>>
    THEN /\ pop
         /\ events' = Schedule(events, 0, Delivery(service, "queue", popleft(packets).ret))
         /\ UNCHANGED <<data_requests, num_dropped>>
    ELSE /\ data_requests' = <<service>> \o data_requests
         /\ UNCHANGED <<packets, num_dropped, size_trace, bitsize_trace,
                        events, departed>>

get_next_always_parks(service) ==
    /\ data_requests' = Append(data_requests, service)
    /\ UNCHANGED <<packets, num_dropped, size_trace, bitsize_trace,
                   events, departed>>

get_next_leaves_packet(service) ==
    IF packets # <<>>
    THEN /\ events' = Schedule(events, 0, Delivery(service, "queue", Head(packets)))
         /\ departed' = Append(departed, Head(packets))
         /\ UNCHANGED <<packets, size_trace, bitsize_trace, data_requests,
                        num_dropped>>
    ELSE /\ data_requests' = Append(data_requests, service)
         /\ UNCHANGED <<packets, num_dropped, size_trace, bitsize_trace,
                        events, departed>>

\* Queue.get_next(service), the service being connected.
get_next(service) ==
    IF packets # <<>>
    THEN /\ pop
         /\ events' = Schedule(events, 0, Delivery(service, "queue", popleft(packets).ret))
         /\ UNCHANGED <<data_requests, num_dropped>>
    ELSE /\ data_requests' = Append(data_requests, service)
         /\ UNCHANGED <<packets, num_dropped, size_trace, bitsize_trace,
                        events, departed>>

\* Queue.get_next(service) called from a handler the scheduler runs: `evs` is
\* the scheduler's queue when the handler runs.
get_next_from(evs, service) ==
    IF packets # <<>>
    THEN /\ pop
         /\ events' = Schedule(evs, 0, Delivery(service, "queue", popleft(packets).ret))
         /\ UNCHANGED <<data_requests, num_dropped>>
    ELSE /\ data_requests' = Append(data_requests, service)
         /\ events' = evs
         /\ UNCHANGED <<packets, num_dropped, size_trace, bitsize_trace, departed>>

(***************************************************************************)
(* WiredTransceiver                                                        *)
(***************************************************************************)

\* numpy.inf, the default bitrate: x / inf == 0.
Inf == 0

tx_busy == tx_frame # <<>> \/ wait_ifs
tx_ready == ~tx_busy
rx_ready == rx_frame = <<>>
rx_busy == ~rx_ready

WireFrame(packet, duration, hsize, pre) ==
    [packet |-> packet, duration |-> duration, header_size |-> hsize,
     preamble |-> pre]

Duration_without_preamble(size) ==
    IF bitrate = Inf THEN 0
    ELSE (header_size + size) \div bitrate

\* (self.header_size + message.size) / self.bitrate + self.preamble.
\* Time is counted in whole units: the packets offered are those whose frame
\* length is a multiple of the bitrate (see Exact), so the division is exact.
Duration(size) ==
    IF bitrate = Inf THEN 0 + preamble
    ELSE (header_size + size) \div bitrate + preamble

Exact(size) ==
    IF bitrate = Inf THEN TRUE ELSE (header_size + size) % bitrate = 0

\* WiredTransceiver.start(), the queue being a Mock that counts its calls.
start ==
    /\ get_next_calls' = get_next_calls + 1
    /\ started' = TRUE

from_queue_checks_frame_only(evs, message) ==
    IF tx_frame # <<>>
    THEN /\ err' = "RuntimeError"
         /\ events' = evs
         /\ UNCHANGED <<tx_frame, wait_ifs, rx_frame>>
    ELSE LET duration == Duration(message.size)
             frame == WireFrame(message, duration, header_size, preamble)
         IN  /\ err' = "none"
             /\ events' = Schedule(Schedule(evs, 0, Delivery("peer", "peer", frame)),
                                   duration, Timer("handle_tx_end", <<>>))
             /\ tx_frame' = <<frame>>
             /\ UNCHANGED <<wait_ifs, rx_frame>>

\* handle_message, the branch connection.name == 'queue'. `evs` is the
\* scheduler's queue when the handler runs.
from_queue(evs, message) ==
    IF tx_busy
    THEN /\ err' = "RuntimeError"
         /\ events' = evs
         /\ UNCHANGED <<tx_frame, wait_ifs, rx_frame>>
    ELSE LET duration == Duration(message.size)
             frame == WireFrame(message, duration, header_size, preamble)
         IN  /\ err' = "none"
             /\ events' = Schedule(Schedule(evs, 0, Delivery("peer", "peer", frame)),
                                   duration, Timer("handle_tx_end", <<>>))
             /\ tx_frame' = <<frame>>
             /\ UNCHANGED <<wait_ifs, rx_frame>>

from_peer_one_timer(evs, message) ==
    /\ err' = "none"
    /\ events' = IF rx_frame # <<>> THEN evs
                 ELSE Schedule(evs, message.duration, Timer("handle_rx_end", <<message>>))
    /\ rx_frame' = <<message>>
    /\ UNCHANGED <<tx_frame, wait_ifs>>

from_peer_half_duplex(evs, message) ==
    IF tx_busy
    THEN /\ err' = "none"
         /\ events' = evs
         /\ UNCHANGED <<tx_frame, wait_ifs, rx_frame>>
    ELSE /\ err' = "none"
         /\ events' = Schedule(evs, message.duration, Timer("handle_rx_end", <<message>>))
         /\ rx_frame' = <<message>>
         /\ UNCHANGED <<tx_frame, wait_ifs>>

\* handle_message, the branch connection.name == 'peer'.
from_peer(evs, message) ==
    /\ err' = "none"
    /\ events' = Schedule(evs, message.duration, Timer("handle_rx_end", <<message>>))
    /\ rx_frame' = <<message>>
    /\ UNCHANGED <<tx_frame, wait_ifs>>

handle_message_else_is_peer(evs, message, connection) ==
    IF connection = "queue" THEN from_queue(evs, message)
    ELSE from_peer(evs, message)

\* WiredTransceiver.handle_message(message, connection)
handle_message(evs, message, connection) ==
    IF connection = "queue" THEN from_queue(evs, message)
    ELSE IF connection = "peer" THEN from_peer(evs, message)
    ELSE /\ err' = "none"
         /\ events' = evs
         /\ UNCHANGED <<tx_frame, wait_ifs, rx_frame>>

handle_tx_end_skips_ifs(evs) ==
    /\ tx_frame' = <<>>
    /\ wait_ifs' = FALSE
    /\ get_next_calls' = get_next_calls + 1
    /\ events' = evs
    /\ UNCHANGED rx_frame

\* WiredTransceiver.handle_tx_end()
handle_tx_end(evs) ==
    /\ tx_frame' = <<>>
    /\ wait_ifs' = TRUE
    /\ events' = Schedule(evs, ifs, Timer("handle_ifs_end", <<>>))
    /\ UNCHANGED <<rx_frame, get_next_calls>>

handle_ifs_end_keeps_waiting(evs) ==
    /\ wait_ifs' = wait_ifs
    /\ get_next_calls' = get_next_calls + 1
    /\ events' = evs
    /\ UNCHANGED <<tx_frame, rx_frame>>

\* WiredTransceiver.handle_ifs_end(), the queue being a Mock
handle_ifs_end(evs) ==
    /\ wait_ifs' = FALSE
    /\ get_next_calls' = get_next_calls + 1
    /\ events' = evs
    /\ UNCHANGED <<tx_frame, rx_frame>>

\* self.connections[name] of a name that was never set: the lookup, or the
\* call of send() on what it returned, raises.
MissingConnection == {"KeyError", "AttributeError"}

\* WiredTransceiver.handle_rx_end(frame)
handle_rx_end(evs, frame) ==
    IF "up" \in connections
    THEN /\ events' = Schedule(evs, 0, Delivery("up", "iface", frame.packet))
         /\ sent_up' = Append(sent_up, [packet |-> frame.packet, at |-> stime'])
         /\ rx_frame' = <<>>
         /\ err' = "none"
         /\ UNCHANGED <<tx_frame, wait_ifs, get_next_calls>>
    ELSE /\ err' \in MissingConnection
         /\ events' = evs
         /\ UNCHANGED <<tx_frame, wait_ifs, rx_frame, get_next_calls, sent_up>>

(***************************************************************************)
(* NetworkSwitch                                                           *)
(***************************************************************************)

\* The switch's connections: 'user' leads to the NetworkService, which has no
\* `address`; 'eth0' and 'eth1' lead to interfaces whose addresses are 1 and 2.
Address == ("eth0" :> 1) @@ ("eth1" :> 2)
LocalAddresses_eth0_only == {Address["eth0"]}

LocalAddresses == {Address[c] : c \in DOMAIN Address}

\* The routing table, filled by SwitchTable.add(dst, connection, next_hop)
\* before the simulation starts: 3 is the neighbour on eth0 and 6 lies behind
\* it, 4 lies behind the neighbour 5 on eth1. Nothing leads to 5 itself.
Table ==
    (3 :> [connection |-> "eth0", next_hop |-> 3]) @@
    (4 :> [connection |-> "eth1", next_hop |-> 5]) @@
    (6 :> [connection |-> "eth0", next_hop |-> 3])

Addresses == 1..6

table_get_falls_back(dst) ==
    IF dst \in DOMAIN Table THEN <<Table[dst]>> ELSE <<Table[3]>>

\* SwitchTable.get(dst): the link, or None (<<>>).
table_get(dst) ==
    IF dst \in DOMAIN Table THEN <<Table[dst]>> ELSE <<>>

NetworkPacket(dst_addr, src_addr, rcv_addr, snd_addr, ssn, data) ==
    [dst_addr |-> dst_addr, src_addr |-> src_addr, snd_addr |-> snd_addr,
     rcv_addr |-> rcv_addr, ssn |-> ssn, data |-> data]

\* What a handle_message call leaves behind: the SSN map, the message object,
\* the connection it was sent on and the exception raised.
Outcome(s, m, sent, raised) ==
    [ssns |-> s, msg |-> m, sent |-> sent, err |-> raised]

stale_never(s, m) == FALSE

stale_if_smaller(s, m) ==
    s[m.src_addr] # None /\ m.ssn < s[m.src_addr]

\* message.src_addr in self.__ssns and message.ssn <= self.__ssns[message.src_addr]
stale(s, m) ==
    s[m.src_addr] # None /\ m.ssn <= s[m.src_addr]

record_first_only(s, m) ==
    IF s[m.src_addr] = None THEN [s EXCEPT ![m.src_addr] = m.ssn] ELSE s

\* self.__ssns[message.src_addr] = message.ssn
record(s, m) == [s EXCEPT ![m.src_addr] = m.ssn]

\* Choose, assign and inc SSN: the map's entry for the destination.
next_ssn(s, dst_addr) ==
    IF s[dst_addr] = None THEN [s EXCEPT ![dst_addr] = 0]
    ELSE [s EXCEPT ![dst_addr] = @ + 1]

stamp_as_source(m, link, address) ==
    [m EXCEPT !.rcv_addr = link.next_hop, !.snd_addr = address,
              !.src_addr = address]

stamp_keeps_sender(m, link, address) ==
    [m EXCEPT !.rcv_addr = link.next_hop]

\* message.rcv_addr = link.next_hop; message.snd_addr = <egress>.address
stamp(m, link, address) ==
    [m EXCEPT !.rcv_addr = link.next_hop, !.snd_addr = address]

\* NetworkSwitch.handle_message(message, connection), from the SSN map `s`.
switch_handle(s, m, connection) ==
    IF m.src_addr # None /\ m.ssn = None
    THEN Outcome(s, m, <<>>, "AssertionError")
    ELSE IF m.src_addr # None /\ stale(s, m)
    THEN Outcome(s, m, <<>>, "none")
    ELSE
    LET s1 == IF m.src_addr # None THEN record(s, m) ELSE s IN
    IF m.dst_addr \in LocalAddresses
    THEN Outcome(s1, m, <<"user">>, "none")
    ELSE IF table_get(m.dst_addr) = <<>>
    THEN Outcome(s1, m, <<>>, "none")
    ELSE
    LET link == table_get(m.dst_addr)[1]
        address == Address[link.connection]
    IN
    IF connection = "user"
    THEN LET s2 == next_ssn(s1, m.dst_addr)
             m2 == [m EXCEPT !.src_addr = address, !.ssn = s2[m.dst_addr]]
         IN  Outcome(s2, stamp(m2, link, address), <<link.connection>>, "none")
    ELSE IF m.src_addr = None \/ m.ssn = None
    THEN Outcome(s1, m, <<>>, "AssertionError")
    ELSE Outcome(s1, stamp(m, link, address), <<link.connection>>, "none")

(***************************************************************************)
(* NetworkService                                                          *)
(***************************************************************************)

\* An object has the attribute: a record has the field.
HasAttr(obj, name) == name \in DOMAIN obj

\* AppData(dest_addr, size, source_id)
AppData(dest, size, sid) ==
    [dest_addr |-> dest, size |-> size, source_id |-> sid]

\* The stand-in for AppData of test_network_layer.py: an object that has the
\* attribute dst_addr.
AppDataMock(dst) == [dst_addr |-> dst]

\* A handle_message call that was given no connection (the default, None).
NoConnection == "None"

\* self.connections.get(name): the connection, or None.
connections_get(name) ==
    IF name \in svc_connections THEN name ELSE NoConnection

service_handle_message_any_is_source(evs, message, connection) ==
    IF ~HasAttr(message, "dst_addr")
    THEN err' = "AttributeError" /\ events' = evs
    ELSE IF "network" \notin svc_connections
    THEN err' \in MissingConnection /\ events' = evs
    ELSE /\ err' = "none"
         /\ events' = Schedule(evs, 0, Delivery("network", "user",
                NetworkPacket(message.dst_addr, None, None, None, None, message)))

service_handle_message_forwards_packet(evs, message, connection) ==
    IF connection = connections_get("source")
    THEN IF ~HasAttr(message, "dst_addr") THEN err' = "AttributeError" /\ events' = evs
         ELSE IF "network" \notin svc_connections THEN err' \in MissingConnection /\ events' = evs
         ELSE /\ err' = "none"
              /\ events' = Schedule(evs, 0, Delivery("network", "user",
                    NetworkPacket(message.dst_addr, None, None, None, None, message)))
    ELSE IF connection = connections_get("network")
    THEN IF "sink" \notin svc_connections THEN err' \in MissingConnection /\ events' = evs
         ELSE /\ err' = "none"
              /\ events' = Schedule(evs, 0, Delivery("sink", "network", message))
    ELSE err' = "none" /\ events' = evs

\* NetworkService.handle_message(message, connection)
service_handle_message(evs, message, connection) ==
    IF connection = connections_get("source")
    THEN IF ~HasAttr(message, "dst_addr")
         THEN err' = "AttributeError" /\ events' = evs
         ELSE IF "network" \notin svc_connections
         THEN err' \in MissingConnection /\ events' = evs
         ELSE /\ err' = "none"
              /\ events' = Schedule(evs, 0, Delivery("network", "user",
                    NetworkPacket(message.dst_addr, None, None, None, None, message)))
    ELSE IF connection = connections_get("network")
    THEN IF "sink" \notin svc_connections
         THEN err' \in MissingConnection /\ events' = evs
         ELSE IF ~HasAttr(message, "data")
         THEN err' = "AttributeError" /\ events' = evs
         ELSE /\ err' = "none"
              /\ events' = Schedule(evs, 0, Delivery("sink", "network", message.data))
    ELSE err' = "none" /\ events' = evs

(***************************************************************************)
(* RandomSource                                                            *)
(***************************************************************************)

\* The values a sampler yields. Intervals are positive: a source with the
\* constant interval 0 never lets the clock advance.
Samples == 1..MaxSample

\* A data_size or interval parameter: a numeric constant, a callable without
\* arguments, or a finite sequence, of which iter() makes an iterator.
Param(kind, value, values) == [kind |-> kind, value |-> value, values |-> values]

Params ==
    {Param("constant", v, <<>>) : v \in Samples} \cup
    {Param("callable", 0, <<>>)} \cup
    {Param("sequence", 0, q) : q \in UNION {[1..n -> Samples] : n \in 0..MaxSeqLen}}

\* The source's identity, as in test_app_layer_modules.py.
source_id == 34
dest_addr == 13

\* iter(param) in __init__: the iterator of a sequence; TypeError (and no
\* iterator) for a constant or a callable.
iter(param) == IF param.kind = "sequence" THEN param.values ELSE <<>>

\* next(iterator) raises StopIteration: the sequence is used up. A constant
\* and a callable always yield.
Exhausted(param, it) == param.kind = "sequence" /\ it = <<>>

\* The values __get_next_interval / __get_next_size may return.
Yields(param, it) ==
    IF param.kind = "constant" THEN {param.value}
    ELSE IF param.kind = "callable" THEN Samples
    ELSE {Head(it)}

Advance_by_two(param, it) ==
    IF param.kind # "sequence" THEN it
    ELSE IF Len(it) >= 2 THEN Tail(Tail(it)) ELSE Tail(it)

\* The iterator after next().
Advance(param, it) == IF param.kind = "sequence" THEN Tail(it) ELSE it

schedule_next_arrival_late(evs) ==
    IF Exhausted(interval, interval_iter)
    THEN /\ events' = evs
         /\ UNCHANGED <<interval_iter, drawn>>
    ELSE \E v \in Yields(interval, interval_iter) :
            /\ events' = Schedule(evs, v + 1, Timer("_generate", <<>>))
            /\ interval_iter' = Advance(interval, interval_iter)
            /\ drawn' = Append(drawn, v)

\* RandomSource.__schedule_next_arrival()
schedule_next_arrival(evs) ==
    IF Exhausted(interval, interval_iter)
    THEN /\ events' = evs
         /\ UNCHANGED <<interval_iter, drawn>>
    ELSE \E v \in Yields(interval, interval_iter) :
            /\ events' = Schedule(evs, v, Timer("_generate", <<>>))
            /\ interval_iter' = Advance(interval, interval_iter)
            /\ drawn' = Append(drawn, v)

generate_stops_with_intervals(evs) ==
    /\ err' = "none"
    /\ IF Exhausted(data_size, data_size_iter) \/ Exhausted(interval, interval_iter)
       THEN /\ events' = evs
            /\ UNCHANGED <<srcstate, generated, drawn>>
       ELSE \E size \in Yields(data_size, data_size_iter) :
            LET app_data == AppData(dest_addr, size, source_id) IN
            /\ data_size_iter' = Advance(data_size, data_size_iter)
            /\ schedule_next_arrival(
                    Schedule(evs, 0, Delivery("network", "source", app_data)))
            /\ arrival_intervals' = Append(arrival_intervals, stime')
            /\ data_size_stat' = Append(data_size_stat, size)
            /\ generated' = Append(generated, [data |-> app_data, at |-> stime'])

generate_keeps_scheduling(evs) ==
    /\ err' = "none"
    /\ IF Exhausted(data_size, data_size_iter)
       THEN /\ schedule_next_arrival(evs)
            /\ UNCHANGED <<data_size_iter, arrival_intervals, data_size_stat,
                           generated>>
       ELSE \E size \in Yields(data_size, data_size_iter) :
            LET app_data == AppData(dest_addr, size, source_id) IN
            /\ data_size_iter' = Advance(data_size, data_size_iter)
            /\ schedule_next_arrival(
                    Schedule(evs, 0, Delivery("network", "source", app_data)))
            /\ arrival_intervals' = Append(arrival_intervals, stime')
            /\ data_size_stat' = Append(data_size_stat, size)
            /\ generated' = Append(generated, [data |-> app_data, at |-> stime'])

generate_records_every_call(evs) ==
    /\ err' = "none"
    /\ IF Exhausted(data_size, data_size_iter)
       THEN /\ events' = evs
            /\ arrival_intervals' = Append(arrival_intervals, stime')
            /\ UNCHANGED <<data_size_iter, interval_iter, data_size_stat,
                           generated, drawn>>
       ELSE \E size \in Yields(data_size, data_size_iter) :
            LET app_data == AppData(dest_addr, size, source_id) IN
            /\ data_size_iter' = Advance(data_size, data_size_iter)
            /\ schedule_next_arrival(
                    Schedule(evs, 0, Delivery("network", "source", app_data)))
            /\ arrival_intervals' = Append(arrival_intervals, stime')
            /\ data_size_stat' = Append(data_size_stat, size)
            /\ generated' = Append(generated, [data |-> app_data, at |-> stime'])

\* RandomSource._generate(), 'network' being connected
generate(evs) ==
    /\ err' = "none"
    /\ IF Exhausted(data_size, data_size_iter)
       THEN /\ events' = evs
            /\ UNCHANGED <<srcstate, generated, drawn>>
       ELSE \E size \in Yields(data_size, data_size_iter) :
            LET app_data == AppData(dest_addr, size, source_id) IN
            /\ data_size_iter' = Advance(data_size, data_size_iter)
            /\ schedule_next_arrival(
                    Schedule(evs, 0, Delivery("network", "source", app_data)))
            /\ arrival_intervals' = Append(arrival_intervals, stime')
            /\ data_size_stat' = Append(data_size_stat, size)
            /\ generated' = Append(generated, [data |-> app_data, at |-> stime'])

\* ---- the queue's driver: direct calls, as in test_queues.py ------------

\* A call made at time `at`: the clock is set, then the callee runs.
Called(at, op, arg) ==
    /\ stime' = at
    /\ nops' = nops + 1
    /\ last' = [op |-> op, arg |-> arg]

QCalled(op, arg, raised) ==
    /\ nops < MaxOps
    /\ Called(stime, op, arg)
    /\ err' = raised

QPush ==
    \E s \in Sizes :
        LET packet == [id |-> nops, size |-> s] IN
        /\ QCalled("push", <<packet>>, "none")
        /\ push(packet)
        /\ UNCHANGED <<capacity, tvars, swvars, appvars>>

QPop ==
    /\ packets # <<>>
    /\ QCalled("pop", <<popleft(packets).ret>>, "none")
    /\ pop
    /\ UNCHANGED <<events, capacity, data_requests, num_dropped, tvars, swvars, appvars>>

QPopEmpty_returns_nothing ==
    /\ packets = <<>>
    /\ QCalled("pop", <<>>, "none")
    /\ size_trace' = Record(size_trace, 0)
    /\ bitsize_trace' = Record(bitsize_trace, 0)
    /\ UNCHANGED <<events, capacity, packets, data_requests, num_dropped,
                   departed, tvars, swvars, appvars>>

\* pop() on an empty queue: popleft raises IndexError, re-raised as ValueError.
QPopEmpty ==
    /\ packets = <<>>
    /\ QCalled("pop", <<>>, "ValueError")
    /\ UNCHANGED <<events, qvars, tvars, swvars, appvars>>

QGetNext ==
    \E service \in Services :
        /\ Len(data_requests) < MaxRequests
        /\ QCalled("get_next", <<service>>, "none")
        /\ get_next(service)
        /\ UNCHANGED <<capacity, tvars, swvars, appvars>>

\* get_next() of a module the queue has no connection to: _get_connection_to
\* raises ValueError before anything is touched.
QGetNextStranger ==
    /\ QCalled("get_next", <<Stranger>>, "ValueError")
    /\ UNCHANGED <<events, qvars, tvars, swvars, appvars>>

SimInit ==
    /\ stime = 0
    /\ events = <<>>
    /\ err = "none"
    /\ last = [op |-> "init", arg |-> <<>>]
    /\ nops = 0

QueueInit ==
    /\ packets = <<>>
    /\ data_requests = <<>>
    /\ num_dropped = 0
    /\ size_trace = <<<<stime, 0>>>>
    /\ bitsize_trace = <<<<stime, 0>>>>
    /\ departed = <<>>

\* WiredTransceiver.__init__ with its default parameters
TrxDefaults ==
    /\ bitrate = Inf
    /\ header_size = 0
    /\ preamble = 0
    /\ ifs = 0

\* The parameters tried, <<bitrate, header_size, preamble, ifs>>: the defaults
\* (frames of no duration, no inter-frame space), a preamble alone, and finite
\* bitrates with and without an inter-frame space.
TrxConfigs ==
    { <<Inf, 0, 0, 0>>, <<Inf, 0, 1, 1>>, <<1, 1, 0, 0>>, <<2, 0, 0, 1>> }

TrxInit ==
    /\ started = FALSE
    /\ tx_frame = <<>>
    /\ wait_ifs = FALSE
    /\ rx_frame = <<>>
    /\ get_next_calls = 0
    /\ accepted = <<>>
    /\ sent_up = <<>>

\* The connections of a transceiver with a module above it ('up'), and of one
\* with nothing above, as the tests set them.
Wired == {"queue", "peer", "up"}
Unplugged == {"queue", "peer"}

Keys == {3, 4} \X (0..MaxSsn)

\* NetworkSwitch.__init__
SwitchInit ==
    /\ ssns = [a \in Addresses |-> None]
    /\ sw_msg = <<>>
    /\ sw_sent = <<>>
    /\ originated = [a \in Addresses |-> 0]
    /\ fed = [k \in Keys |-> 0]
    /\ fwd = [k \in Keys |-> 0]
    /\ fresh_first = {}
    /\ last_ssn = [a \in Addresses |-> None]
    /\ heard = [a \in Addresses |-> None]

\* The connections of a NetworkService in a station, and of services that
\* lack some of them, as the tests build them.
ServiceWired == {"source", "network", "sink", "wrong_name"}
ServiceWirings ==
    { ServiceWired, {"wrong_name"}, {"source", "network"}, {"network", "sink"} }

\* NetworkService.__init__, and the connections set afterwards
ServiceInit ==
    /\ svc_connections = ServiceWired
    /\ handed = <<>>

\* RandomSource.__init__ at time 0, for the parameters already chosen: the
\* iterators are built, the statistics are empty and the first arrival is
\* scheduled, if an interval can be drawn.
SourceInit ==
    /\ data_size_iter = iter(data_size)
    /\ arrival_intervals = <<>>
    /\ data_size_stat = <<>>
    /\ generated = <<>>
    /\ ngen = 0
    /\ IF Exhausted(interval, iter(interval))
       THEN /\ events = <<>>
            /\ interval_iter = iter(interval)
            /\ drawn = <<>>
       ELSE \E v \in Yields(interval, iter(interval)) :
            /\ events = <<[Timer("_generate", <<>>) EXCEPT !.time = v]>>
            /\ interval_iter = Advance(interval, iter(interval))
            /\ drawn = <<v>>

\* No source is built: the parameters of one that schedules nothing.
NoSource ==
    /\ data_size = Param("constant", 1, <<>>)
    /\ interval = Param("sequence", 0, <<>>)
    /\ SourceInit

InitQueue ==
    /\ SimInit
    /\ capacity \in (0..MaxCapacity) \cup {None}
    /\ QueueInit
    /\ TrxDefaults
    /\ connections = Wired
    /\ TrxInit
    /\ SwitchInit
    /\ ServiceInit
    /\ NoSource

NextQueue == QPush \/ QPop \/ QPopEmpty \/ QGetNext \/ QGetNextStranger

SpecQueue == InitQueue /\ [][NextQueue]_vars

(***************************************************************************)
(* The transceiver under the scheduler.  Its queue, its peer and the       *)
(* module above it are Mocks, as in test_wired_interface.py: packets and   *)
(* frames are handed to handle_message at times the driver chooses, while  *)
(* the timers the transceiver sets are fired by the scheduler in order.    *)
(***************************************************************************)

Min(a, b) == IF a < b THEN a ELSE b

\* The driver acts no later than the next event that is due, and within the
\* simulation's time limit.
Horizon == IF events = <<>> THEN MaxTime ELSE Min(MaxTime, Head(events).time)

TCalled(at, op, arg) ==
    /\ nops < MaxTrxCalls
    /\ at \in stime..Horizon
    /\ Called(at, op, arg)

\* The scheduler's loop: the first event is taken, the clock is set to its
\* time and its callback runs.
Dispatch(kind, op) ==
    /\ events # <<>>
    /\ Head(events).kind = kind
    /\ Head(events).time <= MaxTime
    /\ stime' = Head(events).time
    /\ last' = [op |-> op, arg |-> Head(events).msg]
    /\ UNCHANGED nops

TStart ==
    \E at \in stime..Horizon :
        /\ ~started
        /\ TCalled(at, "start", <<>>)
        /\ start
        /\ err' = "none"
        /\ UNCHANGED <<events, qvars, tparams, tx_frame, wait_ifs, rx_frame,
                       connections, tlog, swvars, appvars>>

TFromQueue ==
    \E at \in stime..Horizon, s \in Sizes :
        LET packet == [id |-> nops, size |-> s] IN
        /\ Exact(s)
        /\ TCalled(at, "handle_message", <<"queue", packet>>)
        /\ handle_message(events, packet, "queue")
        /\ UNCHANGED <<qvars, tparams, started, get_next_calls, connections,
                       tlog, swvars, appvars>>

TFromPeer ==
    \E at \in stime..Horizon, d \in 0..MaxDuration :
        LET frame == WireFrame([id |-> nops, size |-> 1], d, 0, 0) IN
        /\ TCalled(at, "handle_message", <<"peer", frame>>)
        /\ handle_message(events, frame, "peer")
        /\ accepted' = Append(accepted, [frame |-> frame, at |-> at])
        /\ UNCHANGED <<qvars, tparams, started, get_next_calls, connections,
                       sent_up, swvars, appvars>>

\* A frame on a connection that is neither 'queue' nor 'peer': one of another
\* name, or the connection to the module above.
TFromOther ==
    \E at \in stime..Horizon, name \in {"wrong_name"} \cup (connections \ {"queue", "peer"}) :
        LET frame == WireFrame([id |-> nops, size |-> 1], 1, 0, 0) IN
        /\ TCalled(at, "handle_message", <<name, frame>>)
        /\ handle_message(events, frame, name)
        /\ UNCHANGED <<qvars, tparams, started, get_next_calls, connections,
                       tlog, swvars, appvars>>

THandleTxEnd ==
    /\ Dispatch("handle_tx_end", "handle_tx_end")
    /\ handle_tx_end(Tail(events))
    /\ err' = "none"
    /\ UNCHANGED <<qvars, tparams, started, connections, tlog, swvars, appvars>>

THandleIfsEnd ==
    /\ Dispatch("handle_ifs_end", "handle_ifs_end")
    /\ handle_ifs_end(Tail(events))
    /\ err' = "none"
    /\ UNCHANGED <<qvars, tparams, started, connections, tlog, swvars, appvars>>

THandleRxEnd ==
    /\ Dispatch("handle_rx_end", "handle_rx_end")
    /\ handle_rx_end(Tail(events), Head(events).msg[1])
    /\ UNCHANGED <<qvars, tparams, started, connections, accepted, swvars, appvars>>

\* A message sent to a Mock (the peer, the module above) is delivered: the
\* Mock's handle_message does nothing.
TMockReceives ==
    /\ Dispatch("handle_message", "Mock.handle_message")
    /\ events' = Tail(events)
    /\ err' = "none"
    /\ UNCHANGED <<qvars, tvars, swvars, appvars>>

InitTrx ==
    /\ SimInit
    /\ capacity = None
    /\ QueueInit
    /\ \/ /\ connections = Wired
          /\ \E c \in TrxConfigs :
                /\ bitrate = c[1]
                /\ header_size = c[2]
                /\ preamble = c[3]
                /\ ifs = c[4]
       \/ /\ connections = Unplugged
          /\ TrxDefaults
    /\ TrxInit
    /\ SwitchInit
    /\ ServiceInit
    /\ NoSource

NextTrx ==
    \/ TStart \/ TFromQueue \/ TFromPeer \/ TFromOther
    \/ THandleTxEnd \/ THandleIfsEnd \/ THandleRxEnd \/ TMockReceives

SpecTrx == InitTrx /\ [][NextTrx]_vars

(***************************************************************************)
(* The transceiver wired to a real Queue.  The queue's connection to the   *)
(* transceiver ends in the transceiver's 'queue' connection, so a packet   *)
(* the queue sends is delivered to WiredTransceiver.handle_message with    *)
(* connection 'queue', and queue.get_next(self) is Queue.get_next.  The    *)
(* module that feeds the queue pushes packets at times the driver chooses; *)
(* the peer is a Mock.  The simulation runs with no time limit, until no   *)
(* event is left.                                                          *)
(***************************************************************************)

\* The transceiver, as the queue's connections name it.
Iface == "iface"

\* WiredTransceiver.start() with the queue it is wired to
link_start ==
    /\ start
    /\ get_next(Iface)

link_ifs_end_keeps_waiting(evs) ==
    /\ wait_ifs' = wait_ifs
    /\ get_next_calls' = get_next_calls + 1
    /\ get_next_from(evs, Iface)
    /\ UNCHANGED <<tx_frame, rx_frame>>

\* WiredTransceiver.handle_ifs_end() with the queue it is wired to
link_handle_ifs_end(evs) ==
    /\ wait_ifs' = FALSE
    /\ get_next_calls' = get_next_calls + 1
    /\ get_next_from(evs, Iface)
    /\ UNCHANGED <<tx_frame, rx_frame>>

LCalled(at, op, arg) ==
    /\ nops < MaxLinkCalls
    /\ at \in stime..Horizon
    /\ Called(at, op, arg)

\* The scheduler's loop without a time limit.
Fire(kind, op) ==
    /\ events # <<>>
    /\ Head(events).kind = kind
    /\ stime' = Head(events).time
    /\ last' = [op |-> op, arg |-> Head(events).msg]
    /\ UNCHANGED nops

\* start() is called by whoever composes the modules: nothing in the
\* constructor calls or schedules it.
LStart ==
    \E at \in stime..Horizon :
        /\ ~started
        /\ LCalled(at, "start", <<>>)
        /\ link_start
        /\ err' = "none"
        /\ UNCHANGED <<capacity, tparams, tx_frame, wait_ifs, rx_frame,
                       connections, tlog, swvars, appvars>>

LPush ==
    \E at \in stime..Horizon, s \in Sizes :
        LET packet == [id |-> nops, size |-> s] IN
        /\ Exact(s)
        /\ LCalled(at, "push", <<packet>>)
        /\ push(packet)
        /\ err' = "none"
        /\ UNCHANGED <<capacity, tvars, swvars, appvars>>

\* The packet the queue sent reaches the transceiver.
LFromQueue ==
    /\ Fire("handle_message", "handle_message")
    /\ Head(events).to = Iface
    /\ handle_message(Tail(events), Head(events).msg[1], Head(events).conn)
    /\ UNCHANGED <<qvars, tparams, started, get_next_calls, connections,
                   tlog, swvars, appvars>>

LHandleTxEnd ==
    /\ Fire("handle_tx_end", "handle_tx_end")
    /\ handle_tx_end(Tail(events))
    /\ err' = "none"
    /\ UNCHANGED <<qvars, tparams, started, connections, tlog, swvars, appvars>>

LHandleIfsEnd ==
    /\ Fire("handle_ifs_end", "handle_ifs_end")
    /\ link_handle_ifs_end(Tail(events))
    /\ err' = "none"
    /\ UNCHANGED <<capacity, tparams, started, connections, tlog, swvars, appvars>>

\* The frame sent on 'peer' is delivered to the Mock at the other end.
LPeerReceives ==
    /\ Fire("handle_message", "Mock.handle_message")
    /\ Head(events).to = "peer"
    /\ events' = Tail(events)
    /\ err' = "none"
    /\ UNCHANGED <<qvars, tvars, swvars, appvars>>

InitLink ==
    /\ SimInit
    /\ capacity \in {1, None}
    /\ QueueInit
    /\ connections = Wired
    /\ \E c \in TrxConfigs :
            /\ bitrate = c[1]
            /\ header_size = c[2]
            /\ preamble = c[3]
            /\ ifs = c[4]
    /\ TrxInit
    /\ SwitchInit
    /\ ServiceInit
    /\ NoSource

LinkEvents == LFromQueue \/ LHandleTxEnd \/ LHandleIfsEnd \/ LPeerReceives

NextLink == LStart \/ LPush \/ LinkEvents

SpecLink == InitLink /\ [][NextLink]_vars

\* The scheduler keeps running while an event is left.
SpecLinkFair == SpecLink /\ WF_vars(LinkEvents)

(***************************************************************************)
(* The switch and its driver: NetworkPackets are handed to handle_message  *)
(* on 'user' as the NetworkService builds them, and on an interface        *)
(* connection as another switch stamped them.                              *)
(***************************************************************************)

Routable(dst_addr) == dst_addr \notin LocalAddresses /\ dst_addr \in DOMAIN Table

SwHandle(m, connection) ==
    LET r == switch_handle(ssns, m, connection)
        onIface == r.sent # <<>> /\ r.sent # <<"user">>
        key == <<m.src_addr, m.ssn>>
    IN  /\ nops < MaxSwMsgs
        /\ Called(stime, "handle_message", <<connection, m>>)
        /\ err' = r.err
        /\ ssns' = r.ssns
        /\ sw_msg' = <<r.msg>>
        /\ sw_sent' = r.sent
        /\ originated' =
            IF connection = "user" /\ onIface
            THEN [originated EXCEPT ![m.dst_addr] = @ + 1] ELSE originated
        /\ IF connection # "user" /\ key \in Keys /\ Routable(m.dst_addr)
           THEN /\ fed' = [fed EXCEPT ![key] = @ + 1]
                /\ fwd' = IF onIface THEN [fwd EXCEPT ![key] = @ + 1] ELSE fwd
                /\ fresh_first' =
                    IF fed[key] = 0 /\ (ssns[m.src_addr] = None \/ m.ssn > ssns[m.src_addr])
                    THEN fresh_first \cup {key} ELSE fresh_first
           ELSE UNCHANGED <<fed, fwd, fresh_first>>
        /\ last_ssn' =
            IF connection = "user" /\ onIface
            THEN [last_ssn EXCEPT ![r.msg.src_addr] = r.msg.ssn] ELSE last_ssn
        /\ heard' =
            IF connection # "user" /\ m.src_addr # None /\ m.ssn # None
                /\ m.ssn > heard[m.src_addr]
            THEN [heard EXCEPT ![m.src_addr] = m.ssn] ELSE heard
        /\ UNCHANGED <<events, qvars, tvars, appvars>>

\* A packet from the local NetworkService: only dst_addr and data are set.
SwFromUser ==
    \E dst \in Addresses :
        SwHandle(NetworkPacket(dst, None, None, None, None, nops), "user")

\* A packet from another switch, received by the interface on eth0.
SwFromIface ==
    \E dst \in Addresses, src \in {3, 4}, n \in 0..MaxSsn :
        SwHandle(NetworkPacket(dst, src, Address["eth0"], 3, n, nops), "eth0")

\* A packet on an interface connection that lacks its SSN or its source.
SwMalformed ==
    \E dst \in Addresses, src \in {None, 3} :
        SwHandle(NetworkPacket(dst, src, Address["eth0"], 3, None, nops), "eth0")

InitSwitch ==
    /\ SimInit
    /\ capacity = None
    /\ QueueInit
    /\ TrxDefaults
    /\ connections = Wired
    /\ TrxInit
    /\ SwitchInit
    /\ ServiceInit
    /\ NoSource

NextSwitch == SwFromUser \/ SwFromIface \/ SwMalformed

SpecSwitch == InitSwitch /\ [][NextSwitch]_vars

(***************************************************************************)
(* The NetworkService and its driver: the source, the switch and the sink  *)
(* are Mocks, as in test_network_layer.py.                                 *)
(***************************************************************************)

\* What may be handed to the service as application data: AppData objects,
\* and the tests' stand-ins.
AppMessages ==
    {AppData(d, z, source_id) : d \in {1, 3}, z \in Sizes} \cup
    {AppDataMock(d) : d \in {1, 3}}

SvcHandle(message, connection) ==
    /\ nops < MaxSvcMsgs
    /\ Called(stime, "handle_message", <<connection, message>>)
    /\ service_handle_message(events, message, connection)
    /\ handed' = IF connection = connections_get("source")
                  THEN Append(handed, message) ELSE handed
    /\ UNCHANGED <<qvars, tvars, swvars, svc_connections, srcvars>>

\* Application data arrives from the source.
SvcFromSource ==
    \E message \in AppMessages :
        /\ "source" \in svc_connections
        /\ SvcHandle(message, "source")

\* A packet arrives from the switch: one that another station originated.
SvcFromNetwork ==
    \E message \in AppMessages :
        /\ "network" \in svc_connections
        /\ SvcHandle(NetworkPacket(1, 3, 1, 3, 0, message), "network")

\* Anything arrives on a connection of another name.
SvcFromOther ==
    \E message \in AppMessages \cup {NetworkPacket(1, 3, 1, 3, 0, AppDataMock(1))} :
        /\ "wrong_name" \in svc_connections
        /\ SvcHandle(message, "wrong_name")

\* handle_message is called without a connection.
SvcDirect ==
    \E message \in {AppDataMock(3), NetworkPacket(1, 3, 1, 3, 0, AppDataMock(1))} :
        SvcHandle(message, NoConnection)

\* The packet the service sent to the switch comes back on 'network', as a
\* switch returns a packet for a local address on 'user', unmodified.
SvcLoopback ==
    /\ Dispatch("handle_message", "loopback")
    /\ Head(events).to = "network"
    /\ service_handle_message(Tail(events), Head(events).msg[1], "network")
    /\ UNCHANGED <<qvars, tvars, swvars, appvars>>

\* A Mock (the switch, the sink) receives what the service sent.
SvcMockReceives ==
    /\ Dispatch("handle_message", "Mock.handle_message")
    /\ events' = Tail(events)
    /\ err' = "none"
    /\ UNCHANGED <<qvars, tvars, swvars, appvars>>

InitService ==
    /\ SimInit
    /\ capacity = None
    /\ QueueInit
    /\ TrxDefaults
    /\ connections = Wired
    /\ TrxInit
    /\ SwitchInit
    /\ svc_connections \in ServiceWirings
    /\ handed = <<>>
    /\ NoSource

NextService ==
    \/ SvcFromSource \/ SvcFromNetwork \/ SvcFromOther \/ SvcDirect
    \/ SvcLoopback \/ SvcMockReceives

SpecService == InitService /\ [][NextService]_vars

(***************************************************************************)
(* The RandomSource under the scheduler; the module on 'network' is a      *)
(* Mock. _generate is fired by the scheduler and, as in                    *)
(* test_app_layer_modules.py, may also be called directly.                 *)
(***************************************************************************)

\* The scheduler fires _generate.
SrcGenerate ==
    /\ Dispatch("_generate", "_generate")
    /\ generate(Tail(events))
    /\ ngen' = ngen + 1
    /\ UNCHANGED <<qvars, tvars, swvars, svcvars, srcparams>>

\* _generate is called directly at the current time, once the scheduler
\* holds no arrival: the source's own chain of arrivals has ended.
SrcCallGenerate ==
    /\ nops < MaxSrcCalls
    /\ \A i \in 1..Len(events) : events[i].kind # "_generate"
    /\ Called(stime, "_generate", <<>>)
    /\ generate(events)
    /\ ngen' = ngen + 1
    /\ UNCHANGED <<qvars, tvars, swvars, svcvars, srcparams>>

\* The Mock on 'network' receives the AppData.
SrcMockReceives ==
    /\ Dispatch("handle_message", "Mock.handle_message")
    /\ events' = Tail(events)
    /\ err' = "none"
    /\ UNCHANGED <<qvars, tvars, swvars, appvars>>

InitSource ==
    /\ stime = 0
    /\ err = "none"
    /\ last = [op |-> "init", arg |-> <<>>]
    /\ nops = 0
    /\ capacity = None
    /\ QueueInit
    /\ TrxDefaults
    /\ connections = Wired
    /\ TrxInit
    /\ SwitchInit
    /\ ServiceInit
    /\ data_size \in Params
    /\ interval \in Params
    /\ SourceInit

NextSource == SrcGenerate \/ SrcCallGenerate \/ SrcMockReceives

SpecSource == InitSource /\ [][NextSource]_vars

(***************************************************************************)
(* The first station of a wired line: the RandomSource wired to the        *)
(* NetworkService (the source's 'network' connection ends in the service's *)
(* 'source' connection), as test_wired_network.py expects the network to   *)
(* be composed.  The AppData the source sends is delivered to              *)
(* NetworkService.handle_message; an exception a handler raises ends the   *)
(* simulation.                                                             *)
(***************************************************************************)

StGenerate ==
    /\ err = "none"
    /\ SrcGenerate

\* The AppData the source sent reaches the service.
StServiceReceives ==
    /\ err = "none"
    /\ Dispatch("handle_message", "handle_message")
    /\ Head(events).conn = "source"
    /\ service_handle_message(Tail(events), Head(events).msg[1], "source")
    /\ handed' = Append(handed, Head(events).msg[1])
    /\ UNCHANGED <<qvars, tvars, swvars, svc_connections, srcvars>>

NextStation == StGenerate \/ StServiceReceives

SpecStation == InitSource /\ [][NextStation]_vars

(***************************************************************************)
(* Properties of the NetworkSwitch (checked under SpecSwitch)              *)
(***************************************************************************)

\* The step is a handle_message call of the switch on connection class `user`
\* (TRUE) or on an interface connection (FALSE).
SwStep == nops' = nops + 1 /\ last'.op = "handle_message"

LastWasTransit ==
    /\ last.op = "handle_message" /\ last.arg[1] # "user"
    /\ last.arg[2].src_addr # None /\ last.arg[2].ssn # None

\* C8, as claimed: whenever two packets with the same (src_addr, ssn) and a
\* routable destination were fed, exactly one copy was forwarded.
C8_TwiceYieldsOne ==
    \A k \in Keys : fed[k] >= 2 => fwd[k] = 1

\* C8, amended: of the packets with one (src_addr, ssn) and a routable
\* destination at most one is ever forwarded, and one is forwarded exactly
\* when the first of them was not stale on arrival (no SSN recorded for its
\* src_addr, or a smaller one): then the first is forwarded and the others
\* are dropped.
C8_OneCopyIfFirstIsFresh ==
    \A k \in Keys :
        /\ fwd[k] <= 1
        /\ fed[k] >= 1 => (fwd[k] = 1 <=> k \in fresh_first)

\* The second packet with the same (src_addr, ssn) was dropped after the first
\* had been forwarded.
C8_Witness ==
    /\ LastWasTransit /\ Routable(last.arg[2].dst_addr)
    /\ sw_sent = <<>>
    /\ fed[<<last.arg[2].src_addr, last.arg[2].ssn>>] = 2
    /\ fwd[<<last.arg[2].src_addr, last.arg[2].ssn>>] = 1

C10_KthOriginatedGetsKMinus1 ==
    (/\ last.op = "handle_message" /\ last.arg[1] = "user"
     /\ sw_sent # <<>> /\ sw_sent # <<"user">>)
    => sw_msg[1].ssn = originated[sw_msg[1].dst_addr] - 1

\* The last handle_message call sent its packet on an interface connection.
SentOnIface == sw_sent # <<>> /\ sw_sent # <<"user">>

\* C11: every packet the switch sends on an interface connection (the one the
\* routing table chose for its destination) has src_addr and ssn set,
\* snd_addr equal to the address of the egress interface and rcv_addr equal to
\* the next_hop of the matched route.
C11_StampedOnEgress ==
    SentOnIface =>
        LET m == sw_msg[1] IN
        /\ m.src_addr # None /\ m.ssn # None
        /\ m.dst_addr \in DOMAIN Table
        /\ sw_sent[1] = Table[m.dst_addr].connection
        /\ m.snd_addr = Address[sw_sent[1]]
        /\ m.rcv_addr = Table[m.dst_addr].next_hop

\* A transit packet that came in on eth0, stamped by its previous hop, left
\* on eth1 for a next hop that is not its destination.
C11_Witness ==
    /\ LastWasTransit /\ last.arg[1] = "eth0" /\ last.arg[2].snd_addr = 3
    /\ sw_sent = <<"eth1">>
    /\ sw_msg[1].snd_addr = 2 /\ sw_msg[1].rcv_addr = 5 /\ sw_msg[1].dst_addr = 4

\* C12: for every address, the SSN the switch has recorded for it never
\* decreases and is never forgotten, whatever messages are handled (packets
\* from 'user' and packets from interfaces, mixed).
C12_RecordedSsnMonotone ==
    [][\A a \in Addresses :
            ssns[a] # None => (ssns'[a] # None /\ ssns'[a] >= ssns[a])
      ]_vars

\* The entry of address 3 was raised by a transit packet from 3 and then by a
\* packet the switch originated.
C12_Witness ==
    /\ last.op = "handle_message" /\ last.arg[1] = "user" /\ SentOnIface
    /\ \E n \in 1..MaxSsn : fwd[<<3, n>>] = 1 /\ ssns[3] = n + 1
    /\ sw_msg[1].ssn = ssns[3]

\* Some module connected to the switch has the address a.
IsLocal(a) == \E c \in DOMAIN Address : Address[c] = a

\* The packet has its ssn when it has its src_addr (the switch asserts it).
WellFormed(m) == m.src_addr = None \/ m.ssn # None

\* The packet is turned away by the filter of old SSNs.
Filtered(m) ==
    m.src_addr # None /\ ssns[m.src_addr] # None /\ m.ssn <= ssns[m.src_addr]

\* C22, as claimed: a packet (with its ssn if it has a src_addr) whose
\* dst_addr is the address of a module connected to the switch is sent on
\* 'user' and nowhere else, with none of its fields modified.
C22_LocalGoesToUser ==
    [][(SwStep /\ IsLocal(last'.arg[2].dst_addr) /\ WellFormed(last'.arg[2])) =>
            /\ sw_sent' = <<"user">>
            /\ sw_msg' = <<last'.arg[2]>>
      ]_vars

\* C22, amended: such a packet is sent on 'user' only, unmodified, provided
\* it passes the filter of old SSNs (its src_addr is unset, or its ssn is
\* greater than the SSN recorded for its src_addr); no SSN is assigned (no
\* origination is counted, the SSN map changes only by the filter's record of
\* the packet's own ssn). A packet the filter turns away is dropped also
\* when its destination is local.
C22_LocalGoesToUserIfFresh ==
    [][(SwStep /\ IsLocal(last'.arg[2].dst_addr) /\ WellFormed(last'.arg[2])) =>
            LET m == last'.arg[2] IN
            IF Filtered(m)
            THEN sw_sent' = <<>> /\ ssns' = ssns /\ err' = "none"
            ELSE /\ sw_sent' = <<"user">>
                 /\ sw_msg' = <<m>>
                 /\ err' = "none"
                 /\ originated' = originated
                 /\ \A a \in Addresses :
                        ssns'[a] = IF a = m.src_addr THEN m.ssn ELSE ssns[a]
      ]_vars

\* A transit packet for the address of eth1 arrived on eth0 and went to
\* 'user' as it was.
C22_Witness ==
    /\ LastWasTransit /\ last.arg[2].dst_addr = Address["eth1"]
    /\ sw_sent = <<"user">> /\ sw_msg = <<last.arg[2]>>
    /\ ssns[last.arg[2].src_addr] = last.arg[2].ssn

\* C23: a packet (with its ssn if it has a src_addr) whose dst_addr is
\* neither the address of a connected module nor a key of the SwitchTable is
\* dropped silently: nothing is sent, no error is raised, the packet's fields
\* are not modified and no SSN is assigned.
C23_UnroutableDropped ==
    [][(/\ SwStep /\ WellFormed(last'.arg[2])
        /\ ~IsLocal(last'.arg[2].dst_addr)
        /\ last'.arg[2].dst_addr \notin {3, 4, 6}) =>
            /\ sw_sent' = <<>>
            /\ events' = events
            /\ err' = "none"
            /\ sw_msg' = <<last'.arg[2]>>
            /\ originated' = originated
      ]_vars

\* A packet from 'user' for address 5, which no route leads to, was dropped.
C23_Witness ==
    /\ last.op = "handle_message" /\ last.arg[1] = "user"
    /\ last.arg[2].dst_addr = 5
    /\ sw_sent = <<>> /\ err = "none" /\ sw_msg = <<last.arg[2]>>
    /\ ssns[5] = None

(***************************************************************************)
(* Properties of the WiredTransceiver (checked under SpecTrx)              *)
(***************************************************************************)

\* The step is a handle_message call for a message on connection `conn`.
Arrival(conn) ==
    /\ nops' = nops + 1
    /\ last'.op = "handle_message" /\ last'.arg[1] = conn

TimersPending(kinds) ==
    {i \in 1..Len(events) : events[i].kind \in kinds}

\* C4: a packet that arrives on 'queue' while the transceiver is tx_busy (a
\* frame is being sent, or the inter-frame space is running) makes
\* handle_message raise RuntimeError; no frame is sent, no event is scheduled
\* and the transceiver's state is unchanged.
C4_ConcurrentTxRaises ==
    [][(Arrival("queue") /\ (tx_frame # <<>> \/ wait_ifs)) =>
            /\ err' = "RuntimeError"
            /\ events' = events
            /\ UNCHANGED <<tx_frame, wait_ifs, rx_frame, started, get_next_calls>>
      ]_vars

\* A packet was refused during the inter-frame space.
C4_Witness ==
    /\ last.op = "handle_message" /\ last.arg[1] = "queue"
    /\ err = "RuntimeError"
    /\ wait_ifs /\ tx_frame = <<>>

TxPhase ==
    IF tx_frame # <<>> THEN (IF wait_ifs THEN "invalid" ELSE "sending")
    ELSE IF wait_ifs THEN "ifs" ELSE "idle"

\* C5: the TX side goes idle -> sending -> IFS -> idle and in no other way.
\* It leaves idle when a packet from 'queue' is accepted, handle_tx_end takes
\* it from sending to IFS (still tx_busy) and schedules handle_ifs_end `ifs`
\* later, handle_ifs_end takes it back to idle; queue.get_next(self) is called
\* once by handle_ifs_end, and otherwise only by start().
C5_TxCycle ==
    [][ /\ TxPhase' # TxPhase =>
            <<TxPhase, TxPhase'>> \in
                {<<"idle", "sending">>, <<"sending", "ifs">>, <<"ifs", "idle">>}
        /\ (TxPhase = "idle" /\ TxPhase' = "sending") =>
            Arrival("queue") /\ err' = "none"
        /\ last'.op = "handle_tx_end" =>
            /\ TxPhase = "sending" /\ TxPhase' = "ifs" /\ tx_busy'
            /\ get_next_calls' = get_next_calls
            /\ Len(events') = Len(events)
            /\ \E i \in 1..Len(events') :
                /\ events'[i].kind = "handle_ifs_end"
                /\ events'[i].time = stime' + ifs
        /\ last'.op = "handle_ifs_end" =>
            /\ TxPhase = "ifs" /\ TxPhase' = "idle"
            /\ get_next_calls' = get_next_calls + 1
        /\ get_next_calls' # get_next_calls =>
            last'.op \in {"handle_ifs_end", "start"}
      ]_vars

\* A whole cycle was run after start(): the second get_next is the one made by
\* handle_ifs_end.
C5_Witness ==
    /\ last.op = "handle_ifs_end"
    /\ started /\ get_next_calls = 2
    /\ TxPhase = "idle"

\* C6: the TX and RX sides are independent. No TX transition changes rx_frame
\* and no RX transition changes tx_frame or wait_ifs; a packet from 'queue' is
\* accepted whenever the transceiver is tx_ready, whatever the RX side does,
\* and a frame from 'peer' is always accepted, whatever the TX side does.
C6_FullDuplex ==
    [][ /\ (Arrival("queue") \/ last'.op \in {"handle_tx_end", "handle_ifs_end"}) =>
            rx_frame' = rx_frame
        /\ (Arrival("peer") \/ last'.op = "handle_rx_end") =>
            tx_frame' = tx_frame /\ wait_ifs' = wait_ifs
        /\ (Arrival("queue") /\ tx_ready) =>
            /\ err' = "none"
            /\ tx_frame' # <<>> /\ tx_frame'[1].packet = last'.arg[2]
        /\ Arrival("peer") =>
            /\ err' = "none"
            /\ rx_frame' = <<last'.arg[2]>>
      ]_vars

\* A frame from 'peer' was accepted while a frame was being sent.
C6_Witness ==
    /\ last.op = "handle_message" /\ last.arg[1] = "peer"
    /\ tx_frame # <<>>
    /\ rx_frame = <<last.arg[2]>>

\* C7, as claimed: the transceiver is tx_busy exactly when a handle_tx_end or
\* handle_ifs_end event is scheduled strictly in the future.
C7_BusyIffTimerInFuture ==
    tx_busy <=>
        \E i \in TimersPending({"handle_tx_end", "handle_ifs_end"}) :
            events[i].time > stime

\* C7, amended: the transceiver is tx_busy exactly when one handle_tx_end or
\* handle_ifs_end event is pending in the scheduler; it is due now or later.
C7_BusyIffTimerPending ==
    /\ tx_busy <=> TimersPending({"handle_tx_end", "handle_ifs_end"}) # {}
    /\ Cardinality(TimersPending({"handle_tx_end", "handle_ifs_end"})) <= 1
    /\ \A i \in TimersPending({"handle_tx_end", "handle_ifs_end"}) :
            events[i].time >= stime

\* A frame of no duration (default bitrate, no preamble) is being sent: its
\* handle_tx_end is due at the current time.
C7_Witness ==
    /\ bitrate = Inf /\ preamble = 0
    /\ tx_frame # <<>>
    /\ \E i \in TimersPending({"handle_tx_end"}) : events[i].time = stime

\* The pending handle_rx_end events of frame f, and the times its packet was
\* sent on 'up'.
RxTimers(f) ==
    {i \in 1..Len(events) : events[i].kind = "handle_rx_end" /\ events[i].msg = <<f>>}

SentUp(f) ==
    {j \in 1..Len(sent_up) : sent_up[j].packet = f.packet}

\* C16: on a transceiver with a module above it, every frame that arrives on
\* 'peer' makes the transceiver rx_busy and schedules handle_rx_end(frame)
\* exactly frame.duration later; when that event fires, frame.packet is sent
\* on 'up', once. So every frame handed over either has its one event
\* pending, due at arrival + duration, or had its packet sent up once, at
\* that time: also a frame that arrived during the reception of another.
C16_EveryFrameDeliveredOnce ==
    /\ [][Arrival("peer") =>
            /\ rx_busy' /\ rx_frame' = <<last'.arg[2]>>
            /\ Len(events') = Len(events) + 1
         ]_vars
    /\ []("up" \in connections =>
            \A i \in 1..Len(accepted) :
                LET f == accepted[i].frame
                    due == accepted[i].at + f.duration
                IN  /\ Cardinality(RxTimers(f)) + Cardinality(SentUp(f)) = 1
                    /\ \A j \in RxTimers(f) : events[j].time = due /\ stime <= due
                    /\ \A j \in SentUp(f) : sent_up[j].at = due)

\* Two frames overlapped (the second arrived before the first had ended) and
\* the packets of both were sent up.
C16_Witness ==
    /\ "up" \in connections
    /\ Len(accepted) = 2 /\ Len(sent_up) = 2
    /\ accepted[1].at < accepted[2].at
    /\ accepted[2].at < accepted[1].at + accepted[1].frame.duration
    /\ {sent_up[1].packet, sent_up[2].packet} =
            {accepted[1].frame.packet, accepted[2].frame.packet}
    /\ accepted[1].frame.packet # accepted[2].frame.packet

\* C17: the handle_rx_end event of a frame that is no longer rx_frame (a
\* later frame replaced it during the reception, and is still being received:
\* its own handle_rx_end is due later) does not clear rx_frame, so that the
\* transceiver stays rx_busy with the later frame.
C17_RxEndChecksFrame ==
    [][(/\ last'.op = "handle_rx_end"
        /\ rx_frame # <<>> /\ rx_frame # last'.arg
        /\ \E i, j \in 1..Len(accepted) :
                /\ accepted[i].frame = last'.arg[1] /\ accepted[j].frame = rx_frame[1]
                /\ accepted[i].at < accepted[j].at
                /\ accepted[j].at < accepted[i].at + accepted[i].frame.duration
        /\ \E i \in RxTimers(rx_frame[1]) : events[i].time > stime') =>
            rx_frame' = rx_frame /\ rx_busy'
      ]_vars

\* C18: handle_rx_end(frame) on a transceiver that has no 'up' connection
\* raises nothing, schedules nothing and leaves the transceiver rx_ready.
C18_RxEndWithoutUpIsSilent ==
    [][(last'.op = "handle_rx_end" /\ "up" \notin connections) =>
            /\ err' = "none"
            /\ events' = Tail(events)
            /\ rx_ready'
      ]_vars

\* C19: a message on a connection named neither 'queue' nor 'peer' is
\* ignored: no event is scheduled, nothing is sent, no error is raised and
\* the transceiver's state (tx_busy and rx_busy with it) is unchanged.
C19_OtherConnectionIgnored ==
    [][(nops' = nops + 1 /\ last'.op = "handle_message"
            /\ last'.arg[1] \notin {"queue", "peer"}) =>
            /\ events' = events
            /\ err' = "none"
            /\ UNCHANGED <<tstate, get_next_calls, sent_up>>
      ]_vars

\* A frame on 'wrong_name' was ignored while a frame was being sent and
\* another was being received.
C19_Witness ==
    /\ last.op = "handle_message" /\ last.arg[1] = "wrong_name"
    /\ tx_frame # <<>> /\ rx_frame # <<>> /\ rx_frame # <<last.arg[2]>>
    /\ Cardinality(TimersPending({"handle_rx_end"})) = 1

\* C20: a transceiver just constructed has exactly one event scheduled, a
\* call of start() at the current time, and is not started.
C20_ConstructionSchedulesStart ==
    last.op = "init" =>
        /\ Len(events) = 1
        /\ events[1].kind = "start" /\ events[1].time = stime
        /\ ~started /\ get_next_calls = 0

\* The event ev is scheduled in evs' and not in evs.
Added(evs, ev) ==
    /\ \E i \in 1..Len(events') : events'[i] = ev
    /\ \A i \in 1..Len(evs) : evs[i] # ev

\* C21: for every packet accepted from 'queue' the transceiver builds a
\* WireFrame carrying it, with its own header_size and preamble and with
\* duration = (header_size + packet.size) / bitrate + preamble (the preamble
\* alone at the infinite bitrate), sends it on 'peer' and schedules
\* handle_tx_end that duration later, and nothing else; handle_tx_end
\* schedules handle_ifs_end `ifs` after it fired.
C21_FrameDuration ==
    [][ /\ (Arrival("queue") /\ err' = "none") =>
            /\ tx_frame' # <<>>
            /\ LET frame == tx_frame'[1]
                    packet == last'.arg[2]
               IN  /\ frame.packet = packet
                   /\ frame.header_size = header_size
                   /\ frame.preamble = preamble
                   /\ IF bitrate = Inf THEN frame.duration = preamble
                      ELSE (frame.duration - preamble) * bitrate
                                = header_size + packet.size
                   /\ Len(events') = Len(events) + 2
                   /\ Added(events, [Delivery("peer", "peer", frame)
                                        EXCEPT !.time = stime'])
                   /\ Added(events, [Timer("handle_tx_end", <<>>)
                                        EXCEPT !.time = stime' + frame.duration])
        /\ last'.op = "handle_tx_end" =>
            /\ Len(events') = Len(events)
            /\ Added(Tail(events), [Timer("handle_ifs_end", <<>>)
                                        EXCEPT !.time = stime' + ifs])
      ]_vars

\* At bitrate 1 with a header of 1 and no preamble, a packet of size 1 was
\* sent in a frame that lasted 2; its inter-frame space has just begun.
C21_Witness ==
    /\ bitrate = 1 /\ header_size = 1
    /\ last.op = "handle_tx_end" /\ wait_ifs
    /\ stime >= 2
    /\ nops = 1

(***************************************************************************)
(* Properties of the Queue (checked under SpecQueue)                       *)
(***************************************************************************)

\* C1: a queue built with a finite capacity never buffers more packets than
\* that capacity, whatever push, pop and get_next calls were made.
C1_LengthWithinCapacity ==
    capacity # None => Len(packets) <= capacity

\* A push was refused by a queue that is full at its finite capacity.
C1_Witness ==
    /\ capacity # None /\ capacity > 0
    /\ Len(packets) = capacity
    /\ last.op = "push" /\ num_dropped > 0

IdsIncreasing(seq) ==
    \A i, j \in 1..Len(seq) : i < j => seq[i].id < seq[j].id

\* A call that takes a packet out of the buffer: pop(), or get_next() on a
\* non-empty queue.
PullStep ==
    /\ nops' = nops + 1 /\ err' = "none"
    /\ \/ last'.op = "pop"
       \/ last'.op = "get_next" /\ packets # <<>>

\* C2: packets leave in the order they were buffered. Packet ids are the push
\* order, so the packets that left, followed by those still buffered, carry
\* strictly increasing ids (an order-preserving subsequence of the pushes,
\* without repetition); and every pull removes exactly the oldest buffered
\* packet, a get_next sending it to the requesting service and parking nothing.
C2_FifoOrder ==
    /\ [](IdsIncreasing(departed \o packets))
    /\ [][PullStep =>
            /\ packets' = Tail(packets)
            /\ departed' = Append(departed, Head(packets))
            /\ data_requests' = data_requests
            /\ last'.op = "get_next" =>
                events' = Append(events,
                    [Delivery(last'.arg[1], "queue", Head(packets))
                        EXCEPT !.time = stime])
            /\ last'.op = "pop" => last'.arg = <<Head(packets)>> /\ events' = events
         ]_vars

\* A get_next took the oldest of several buffered packets, after an earlier
\* packet had already left.
C2_Witness ==
    /\ last.op = "get_next" /\ err = "none"
    /\ Len(departed) >= 2 /\ packets # <<>>
    /\ events # <<>> /\ events[Len(events)].msg = <<departed[Len(departed)]>>

\* C3: a push that finds a parked request sends the packet to the service that
\* made the oldest request, over the queue's connection to it, and buffers
\* nothing: as_tuple, size_trace, bitsize_trace and num_dropped are unchanged.
C3_PushToWaitingService ==
    [][(nops' = nops + 1 /\ last'.op = "push" /\ data_requests # <<>>) =>
            /\ events' = Append(events,
                    [Delivery(Head(data_requests), "queue", last'.arg[1])
                        EXCEPT !.time = stime])
            /\ data_requests' = Tail(data_requests)
            /\ UNCHANGED <<packets, size_trace, bitsize_trace, num_dropped>>
      ]_vars

\* A push was handed to a parked request of an empty queue.
C3_Witness ==
    /\ last.op = "push"
    /\ events # <<>> /\ events[Len(events)].msg = last.arg
    /\ packets = <<>> /\ Len(size_trace) = 1 /\ num_dropped = 0

\* A push() call.
PushStep == nops' = nops + 1 /\ last'.op = "push"

\* The queue holds as many packets as its finite capacity allows and no
\* service is waiting.
FullAndUnserved ==
    capacity # None /\ Len(packets) = capacity /\ data_requests = <<>>

BufferedPush == PushStep /\ packets' = Append(packets, last'.arg[1])

\* C14: the last size_trace sample is the current number of buffered packets,
\* and size_trace holds one sample from construction plus one per push that
\* was buffered plus one per pop (those made by get_next included): a call
\* adds exactly one sample when it is such a push or pop, and none otherwise.
C14_SizeTraceSamples ==
    /\ [](size_trace[Len(size_trace)][2] = Len(packets))
    /\ [](nops = 0 => Len(size_trace) = 1)
    /\ [][Len(size_trace') = Len(size_trace)
                + (IF BufferedPush THEN 1 ELSE 0) + (IF PullStep THEN 1 ELSE 0)
         ]_vars

\* After buffered pushes, a pop and a get_next that popped, the trace holds
\* five samples and ends with the current length.
C14_Witness ==
    /\ last.op = "get_next" /\ err = "none"
    /\ Len(departed) = 2 /\ Len(packets) = 1 /\ data_requests = <<>>
    /\ Len(size_trace) = 6 /\ size_trace[6][2] = 1

\* C15: get_next requests made on an empty queue are parked in the order
\* they are made; a push that finds parked requests is handed to the oldest
\* of them, which is thereby served: exactly one packet is sent, to that
\* request's service, and the other requests keep their order. Requests are
\* parked and served in no other way.
C15_ParkedRequestsServedInOrder ==
    [][ /\ (nops' = nops + 1 /\ last'.op = "get_next" /\ err' = "none"
                /\ packets = <<>>) =>
            /\ data_requests' = Append(data_requests, last'.arg[1])
            /\ events' = events
        /\ (PushStep /\ data_requests # <<>>) =>
            /\ data_requests' = Tail(data_requests)
            /\ Len(events') = Len(events) + 1
            /\ events'[Len(events')].to = Head(data_requests)
            /\ events'[Len(events')].msg = last'.arg
        /\ data_requests' # data_requests =>
            \/ PushStep /\ data_requests # <<>>
            \/ last'.op = "get_next" /\ packets = <<>>
      ]_vars

\* s2 and then s1 asked an empty queue, and two pushes went to s2 and then
\* to s1: nothing was ever buffered.
C15_Witness ==
    /\ last.op = "push" /\ data_requests = <<>> /\ packets = <<>>
    /\ Len(size_trace) = 1 /\ num_dropped = 0
    /\ Len(events) = 2 /\ events[1].to = "s2" /\ events[2].to = "s1"
    /\ events[1].msg[1].id < events[2].msg[1].id

(***************************************************************************)
(* Properties of the NetworkService (checked under SpecService)            *)
(***************************************************************************)

IsAppData(m) == HasAttr(m, "dest_addr") /\ HasAttr(m, "source_id")

\* C24, as claimed: for every AppData received on the 'source' connection
\* (with 'network' connected) the service raises nothing and sends exactly
\* one new NetworkPacket on 'network', whose dst_addr is the AppData's
\* destination address, whose data is that AppData and whose src_addr,
\* snd_addr, rcv_addr and ssn are unset.
C24_AppDataEncapsulated ==
    [][(Arrival("source") /\ IsAppData(last'.arg[2])
            /\ {"source", "network"} \subseteq svc_connections) =>
            /\ err' = "none"
            /\ events' = Schedule(events, 0, Delivery("network", "user",
                    NetworkPacket(last'.arg[2].dest_addr, None, None, None, None,
                                  last'.arg[2])))
      ]_vars

\* C25: a NetworkPacket received on 'network' (with 'sink' connected) makes
\* the service send the packet's data, itself, on 'sink' and nothing else;
\* and when the packet is one the service built from a message taken on
\* 'source', what reaches the sink is that message.
C25_DataHandedToSink ==
    [][ /\ (Arrival("network") /\ "sink" \in svc_connections) =>
            /\ err' = "none"
            /\ events' = Schedule(events, 0,
                              Delivery("sink", "network", last'.arg[2].data))
        /\ (last'.op = "loopback" /\ nops' = nops /\ events # <<>>
                /\ "sink" \in svc_connections) =>
            /\ err' = "none"
            /\ events' = Schedule(Tail(events), 0,
                              Delivery("sink", "network", Head(events).msg[1].data))
            /\ \E k \in 1..Len(handed) : handed[k] = Head(events).msg[1].data
      ]_vars

\* The service took a message on 'source', the packet came back on
\* 'network', and the message is on its way to the sink.
C25_Witness ==
    /\ last.op = "loopback" /\ err = "none"
    /\ Len(handed) = 1
    /\ Len(events) = 1 /\ events[1].to = "sink" /\ events[1].msg = <<handed[1]>>

\* C26: a message that arrives on a connection of another name than
\* 'source' and 'network' is ignored: nothing is scheduled and nothing is
\* raised, whether or not 'source' and 'network' are connected.
C26_OtherConnectionIgnoredByService ==
    [][(Arrival("wrong_name")) => (events' = events /\ err' = "none")]_vars

\* With nothing else connected, and with everything connected, a message
\* came on 'wrong_name' while a packet was on its way, and changed nothing.
C26_Witness ==
    /\ last.op = "handle_message" /\ last.arg[1] = "wrong_name"
    /\ err = "none"
    /\ \/ svc_connections = {"wrong_name"} /\ events = <<>>
       \/ svc_connections = ServiceWired /\ Len(events) = 1 /\ nops = 2

(***************************************************************************)
(* Properties of the RandomSource (checked under SpecSource)               *)
(***************************************************************************)

\* A step that is an invocation of _generate, by the scheduler or directly.
GenStep == ngen' = ngen + 1

\* The scheduler's queue as the invocation finds it.
GenBase == IF nops' = nops THEN Tail(events) ELSE events

GeneratePending == TimersPending({"_generate"}) # {}

\* The sum of the first n interval samples drawn.
RECURSIVE SumDrawn(_, _)
SumDrawn(d, n) == IF n = 0 THEN 0 ELSE SumDrawn(d, n - 1) + d[n]

\* The queue after one AppData of the given size was sent on 'network'.
Sent(evs, size) ==
    Schedule(evs, 0, Delivery("network", "source", AppData(dest_addr, size, source_id)))

\* The state construction leaves: one _generate after the first sample.
Constructed ==
    /\ Len(events) = 1 /\ events[1].kind = "_generate"
    /\ Len(drawn) = 1 /\ events[1].time = drawn[1]

\* Under the scheduler, the n-th packet so far was generated at the sum of
\* the first n interval samples.
ArrivalsAtSums(gen, d) ==
    \A n \in 1..Len(gen) : n <= Len(d) /\ gen[n].at = SumDrawn(d, n)

\* C27, as claimed: construction schedules one _generate after the first
\* interval sample; every _generate that sends sends exactly one
\* AppData{source_id, dest_addr, size} on 'network' and schedules exactly one
\* next _generate after a fresh interval sample, so that the n-th packet is
\* generated at the sum of the first n samples. Stated for a source that the
\* scheduler runs and whose interval is not an empty sequence.
C27_EverySendSchedulesNext ==
    [][ /\ (ngen = 0 /\ nops = 0 /\ ~Exhausted(interval, iter(interval))) =>
            Constructed
        /\ (GenStep /\ nops' = 0 /\ Len(generated') > Len(generated)) =>
            /\ \E size \in Samples, v \in Samples :
                  events' = Schedule(Sent(GenBase, size), v, Timer("_generate", <<>>))
            /\ nops' = 0 => ArrivalsAtSums(generated', drawn')
      ]_vars

\* C27, amended: construction schedules one _generate after the first
\* interval sample, and nothing if interval is an empty sequence; every
\* _generate that sends sends exactly one AppData{source_id, dest_addr, size}
\* on 'network', and schedules exactly one next _generate after a fresh
\* interval sample if interval yields one, and none if interval is a finite
\* sequence that is used up. Under the scheduler the n-th packet is
\* generated at the sum of the first n interval samples.
C27_SendSchedulesNextWhileIntervalsLast ==
    [][ /\ (ngen = 0 /\ nops = 0) =>
            IF interval.kind = "sequence" /\ interval.values = <<>>
            THEN events = <<>> /\ drawn = <<>>
            ELSE Constructed
        /\ (GenStep /\ Len(generated') > Len(generated)) =>
            /\ \E size \in Yields(data_size, data_size_iter) :
                  /\ generated' = Append(generated,
                        [data |-> AppData(dest_addr, size, source_id), at |-> stime'])
                  /\ IF Exhausted(interval, interval_iter)
                     THEN events' = Sent(GenBase, size) /\ drawn' = drawn
                     ELSE \E v \in Yields(interval, interval_iter) :
                            /\ events' = Schedule(Sent(GenBase, size), v,
                                                  Timer("_generate", <<>>))
                            /\ drawn' = Append(drawn, v)
            /\ nops' = 0 => ArrivalsAtSums(generated', drawn')
      ]_vars

\* A callable interval gave 1 and then 2: packets were generated at 1 and at
\* 3, and the third _generate is scheduled a fresh sample later.
C27_Witness ==
    /\ nops = 0 /\ interval.kind = "callable"
    /\ Len(generated) = 2 /\ generated[1].at = 1 /\ generated[2].at = 3
    /\ Len(drawn) = 3 /\ drawn[1] = 1 /\ drawn[2] = 2
    /\ \E i \in TimersPending({"_generate"}) : events[i].time = 3 + drawn[3]

\* interval is a sequence of two values and data_size a constant.
TwoIntervals ==
    /\ interval.kind = "sequence" /\ Len(interval.values) = 2
    /\ data_size.kind = "constant"

\* C28, as claimed: with interval a sequence of two values and a constant
\* data_size, of three _generate invocations the first two send a packet and
\* schedule the next _generate, and the third sends nothing and schedules
\* nothing.
C28_ThirdGenerateDoesNothing ==
    [][(GenStep /\ TwoIntervals) =>
            /\ ngen \in {0, 1} =>
                \E v \in Samples :
                    events' = Schedule(Sent(GenBase, data_size.value), v,
                                       Timer("_generate", <<>>))
            /\ ngen = 2 => events' = GenBase /\ generated' = generated
      ]_vars

\* C28, amended: with interval a sequence of two values and a constant
\* data_size, the first _generate sends a packet and schedules the next
\* _generate after the second value; the second finds the interval iterator
\* exhausted: it sends its packet and schedules nothing; a third invocation
\* (a later one likewise) still sends a packet and schedules nothing.
C28_OnlyFirstGenerateSchedules ==
    [][(GenStep /\ TwoIntervals) =>
            /\ err' = "none"
            /\ Len(generated') = Len(generated) + 1
            /\ ngen = 0 =>
                events' = Schedule(Sent(GenBase, data_size.value),
                                   interval.values[2], Timer("_generate", <<>>))
            /\ ngen >= 1 => events' = Sent(GenBase, data_size.value)
      ]_vars

\* Three invocations were made, the third directly: three packets were
\* sent and no _generate is scheduled.
C28_Witness ==
    /\ TwoIntervals /\ last.op = "_generate" /\ nops = 1
    /\ ngen = 3 /\ Len(generated) = 3
    /\ ~GeneratePending

\* data_size yields at least n values.
DataLasts(n) == data_size.kind = "sequence" => Len(data_size.values) >= n

C30_ExhaustedSizesHalt ==
    [][(GenStep /\ Exhausted(data_size, data_size_iter)) =>
            /\ events' = GenBase
            /\ err' = "none"
            /\ UNCHANGED <<srcstate, generated, drawn>>
            /\ Exhausted(data_size', data_size_iter')
      ]_vars

\* One size was given and intervals never run out: the first _generate
\* sent a packet, the second, fired by the scheduler, and a third, called
\* directly, did nothing.
C30_Witness ==
    /\ data_size.kind = "sequence" /\ Len(data_size.values) = 1
    /\ interval.kind = "constant"
    /\ last.op = "_generate" /\ nops = 1 /\ ngen = 3
    /\ Len(generated) = 1 /\ Len(data_size_stat) = 1 /\ Len(drawn) = 2
    /\ events = <<>> /\ err = "none"

\* C31: at every point of a run the source has recorded as many arrival
\* times and as many data sizes as it has sent AppData packets on 'network';
\* the k-th records are the time and the size of the k-th packet.
C31_StatisticsMatchPackets ==
    /\ Len(arrival_intervals) = Len(generated)
    /\ Len(data_size_stat) = Len(generated)
    /\ \A k \in 1..Len(generated) :
          /\ k <= Len(arrival_intervals) /\ arrival_intervals[k] = generated[k].at
          /\ k <= Len(data_size_stat) /\ data_size_stat[k] = generated[k].data.size

\* Two packets were sent and a third _generate found the sizes used up: two
\* records of each kind.
C31_Witness ==
    /\ ngen = 3 /\ Len(generated) = 2
    /\ Len(arrival_intervals) = 2 /\ Len(data_size_stat) = 2
    /\ data_size.kind = "sequence" /\ data_size_stat = data_size.values

(***************************************************************************)
(* Further properties of the Queue (checked under SpecQueue)               *)
(***************************************************************************)

\* C33: pop() on an empty Queue raises ValueError and leaves the buffered
\* packets, the parked requests, both traces, num_dropped and the scheduler
\* unchanged.
C33_PopFromEmptyRaises ==
    [][(nops' = nops + 1 /\ last'.op = "pop" /\ packets = <<>>) =>
            /\ err' = "ValueError"
            /\ UNCHANGED <<packets, data_requests, size_trace, bitsize_trace,
                           num_dropped, events>>
      ]_vars

\* pop() was called on a queue that had been used and emptied, and that
\* holds a parked request.
C33_Witness ==
    /\ last.op = "pop" /\ err = "ValueError"
    /\ packets = <<>> /\ data_requests # <<>>
    /\ Len(size_trace) = 3

\* C37: in every state reachable by push, pop and get_next calls the queue
\* does not hold buffered packets and parked pull requests at the same time.
C37_BufferedOrParkedNotBoth ==
    packets = <<>> \/ data_requests = <<>>

\* Of two parked requests a push served the first: one request is still
\* parked and nothing was buffered.
C37_Witness ==
    /\ last.op = "push" /\ err = "none"
    /\ Len(data_requests) = 1 /\ packets = <<>>
    /\ Len(events) = 1 /\ num_dropped = 0

\* The packets the queue has accounted for: buffered, sent to a service, or
\* dropped. (What the queue sent stays in `events`: nothing is delivered
\* under SpecQueue.)
Accounted == Len(packets) + Len(events) + num_dropped

SentIds == {events[i].msg[1].id : i \in 1..Len(events)}
BufferedIds == {packets[i].id : i \in 1..Len(packets)}

\* C40: every pushed packet is accounted for exactly once: a push adds one to
\* the number of packets buffered, sent to services or dropped, a get_next
\* moves at most one packet from the buffer to a service and changes the sum
\* by nothing (a pop hands one buffered packet to its caller); no packet is
\* sent twice, and none that was sent is still buffered.
C40_EveryPushAccountedOnce ==
    /\ [](/\ Cardinality(SentIds) = Len(events)
          /\ Cardinality(BufferedIds) = Len(packets)
          /\ SentIds \cap BufferedIds = {})
    /\ [][ /\ PushStep => Accounted' = Accounted + 1
           /\ (nops' = nops + 1 /\ last'.op = "get_next") =>
                /\ Accounted' = Accounted
                /\ num_dropped' = num_dropped
                /\ Len(events') <= Len(events) + 1
           /\ (nops' = nops + 1 /\ last'.op = "pop" /\ err' = "none") =>
                /\ Len(packets') = Len(packets) - 1
                /\ events' = events /\ num_dropped' = num_dropped
         ]_vars

\* Four pushes: one was sent to a parked request, one was buffered and then
\* sent by a get_next, one is buffered and one was dropped.
C40_Witness ==
    /\ capacity = 1 /\ last.op = "push"
    /\ Len(events) = 2 /\ Len(packets) = 1 /\ num_dropped = 1
    /\ nops = 6

(***************************************************************************)
(* Further properties of the NetworkSwitch (checked under SpecSwitch)      *)
(***************************************************************************)

\* The step originates a packet: it came on 'user' and left on an interface.
Origination ==
    /\ SwStep /\ last'.arg[1] = "user"
    /\ sw_sent' # <<>> /\ sw_sent' # <<"user">>

\* C34, as claimed: the packets the switch originates with one src_addr are
\* assigned strictly increasing SSNs in origination order, whatever their
\* destinations are.
C34_SsnsIncreasePerSource ==
    [][Origination =>
            LET m == sw_msg'[1] IN
            IF last_ssn[m.src_addr] = None THEN TRUE
            ELSE m.ssn > last_ssn[m.src_addr]
      ]_vars

\* The step drops a transit packet that has somewhere to go: the filter of
\* old SSNs turned it away.
DroppedAsStale ==
    /\ SwStep /\ last'.arg[1] # "user"
    /\ last'.arg[2].src_addr # None /\ last'.arg[2].ssn # None
    /\ (IsLocal(last'.arg[2].dst_addr) \/ last'.arg[2].dst_addr \in {3, 4, 6})
    /\ sw_sent' = <<>>

\* C35, as claimed: a packet is dropped as stale only if the switch handled
\* before a packet with the same src_addr and an equal or greater SSN; a
\* packet from a src_addr never heard of is not dropped as stale, whatever
\* the switch originated itself.
C35_StaleOnlyIfHeard ==
    [][DroppedAsStale =>
            LET m == last'.arg[2] IN
            IF heard[m.src_addr] = None THEN FALSE
            ELSE heard[m.src_addr] >= m.ssn
      ]_vars

\* C36: handling a packet that came on another connection than 'user' never
\* changes its src_addr, ssn, dst_addr or data; when the packet is forwarded
\* on an interface its snd_addr and rcv_addr are rewritten (the egress
\* interface's address, the route's next hop), otherwise the packet is left
\* as it was. src_addr and ssn are assigned only to a packet that came on
\* 'user' and leaves on an interface, whose dst_addr and data are kept.
C36_TransitKeepsSourceFields ==
    [][SwStep =>
            LET m == last'.arg[2]
                out == sw_msg'[1]
                onIface == sw_sent' # <<>> /\ sw_sent' # <<"user">>
            IN  /\ out.dst_addr = m.dst_addr /\ out.data = m.data
                /\ last'.arg[1] # "user" =>
                        out.src_addr = m.src_addr /\ out.ssn = m.ssn
                /\ IF onIface
                   THEN /\ out.snd_addr = Address[sw_sent'[1]]
                        /\ out.rcv_addr = Table[m.dst_addr].next_hop
                        /\ last'.arg[1] = "user" =>
                                out.src_addr = Address[sw_sent'[1]] /\ out.ssn # None
                   ELSE out = m
      ]_vars

\* A packet that 3 originated with ssn 1 for 6 came in on eth0 and left on
\* eth0 again: only its snd_addr changed hands, from 3 to the switch.
C36_Witness ==
    /\ LastWasTransit /\ sw_sent = <<"eth0">>
    /\ last.arg[2].dst_addr = 6 /\ last.arg[2].src_addr = 3 /\ last.arg[2].ssn = 1
    /\ sw_msg[1] = [last.arg[2] EXCEPT !.snd_addr = 1, !.rcv_addr = 3]
    /\ last.arg[2].snd_addr = 3

(***************************************************************************)
(* Properties of the Queue wired to a WiredTransceiver                     *)
(***************************************************************************)

\* The pull requests of the transceiver that wait for a packet (parked in
\* the queue) or are being served (the packet is on its way to it).
ParkedPulls == Len(SelectSeq(data_requests, LAMBDA c: c = Iface))
ServedPulls == Len(SelectSeq(events, LAMBDA e: e.to = Iface))

\* The scheduler hands the transceiver a packet of the queue.
FromQueueStep ==
    /\ nops' = nops /\ last'.op = "handle_message"
    /\ events # <<>> /\ Head(events).to = Iface

\* C38: in a queue wired to one transceiver that is started once, a packet
\* of the queue never reaches the transceiver while it is tx_busy and the
\* RuntimeError of a concurrent transmission is never raised; at most one
\* pull request of the transceiver is parked or being served at any time,
\* and none is while the transceiver is busy or before it is started.
C38_NoPacketWhileBusy ==
    /\ [](/\ err # "RuntimeError"
          /\ ParkedPulls + ServedPulls <= 1
          /\ (tx_busy \/ ~started) => ParkedPulls + ServedPulls = 0)
    /\ [][FromQueueStep => (tx_ready /\ err' = "none" /\ tx_frame' # <<>>)]_vars

\* The transceiver took a second packet from the queue, after the first
\* frame and its inter-frame space were over, while a third one waits.
C38_Witness ==
    /\ last.op = "handle_message" /\ tx_frame # <<>>
    /\ Len(departed) = 2 /\ packets # <<>>
    /\ tx_frame[1].packet = departed[2]
    /\ ifs > 0 /\ tx_frame[1].duration > 0

\* The frame of packet `id` is on the 'peer' connection.
OnWire(id) ==
    \E i \in 1..Len(events) :
        events[i].to = "peer" /\ events[i].msg[1].packet.id = id

PacketIds == 0..MaxLinkCalls

\* C39, as claimed: in a queue wired to a transceiver with finite frame
\* duration and IFS, every packet buffered in the queue is eventually sent
\* as a WireFrame on 'peer', and a tx_busy transceiver eventually becomes
\* tx_ready again.
C39_BufferedEventuallySent ==
    /\ \A id \in PacketIds : (id \in BufferedIds) ~> OnWire(id)
    /\ tx_busy ~> tx_ready

\* What holds of the transceiver once start() was called: the packets
\* buffered are sent, and a busy transceiver becomes ready again.
OnceStartedBufferedIsSent ==
    /\ \A id \in PacketIds : (started /\ id \in BufferedIds) ~> OnWire(id)
    /\ tx_busy ~> tx_ready

(***************************************************************************)
(* Properties of the wired line                                            *)
(***************************************************************************)

\* The service is handed what the source generated.
StationStep ==
    /\ nops' = nops /\ last'.op = "handle_message"
    /\ Len(handed') = Len(handed) + 1

\* C32, as claimed: in a two-station wired line every packet the source
\* generates is delivered to the destination's sink exactly once and in
\* order (but the one in flight at the time limit).  On its way each packet
\* first passes the NetworkService of its own station: no handler raises,
\* and the service sends every AppData it is handed on, in a NetworkPacket,
\* to the switch.
C32_EveryGeneratedPacketDelivered ==
    /\ [](err = "none")
    /\ [][StationStep =>
            \E i \in 1..Len(events') :
                /\ events'[i].conn = "user"
                /\ events'[i].msg[1].data = last'.arg[1]
         ]_vars

====
